---- MODULE Spec2Model ----
(***************************************************************************)
(* LoggerService (libs/modules/global/logger/service.ts) and the GET       *)
(* /health endpoint of main-api, as state machines.                        *)
(*                                                                         *)
(* JavaScript values are encoded as follows.  The string "undefined"       *)
(* (Undef) stands for the value undefined in every string-valued field; a  *)
(* numeric field (an HTTP status) is 0 when it is absent, which is falsy   *)
(* in JavaScript as well.  A key whose value is undefined is left out of   *)
(* the line pino writes, so "absent" and "undefined" coincide in a record. *)
(***************************************************************************)
EXTENDS Integers, Sequences, FiniteSets, TLC

VARIABLES
    connected,   \* this.pino has been built by connect()
    level,       \* the level of this.pino.logger
    app,         \* this.app
    bindings,    \* the bindings of this.pino.logger (setBindings)
    req,         \* the HTTP request in flight, NoReq when there is none
    uuids,       \* how many identifiers uuidv4() has handed out
    issued,      \* the lines written for thrown strings by earlier calls
    last,        \* the call on the logger this step made and what it wrote
    pending,     \* this.app as it was at the call of each line that waits in
                 \* the pretty stream, oldest first
    console,     \* the line the pretty stream formatted last
    name,        \* the name main-api's package.json declares
    svc,         \* the health service behind the controller
    resp         \* the HTTP response of the last GET /health

vars == <<connected, level, app, bindings, req, uuids, issued, last, pending, console, name, svc, resp>>

loggerVars == <<connected, level, app, bindings, req, uuids, issued, last, pending, console>>

healthVars == <<name, svc, resp>>

----------------------------------------------------------------------------
(* Bounds of the model *)

\* uuidv4() is called at most MaxUuid times in a behaviour
MaxUuid == 2

\* at most MaxPending lines wait in the pretty stream
MaxPending == 1

----------------------------------------------------------------------------
(* JavaScript helpers *)

Undef == "undefined"

\* Boolean(v) for a string-valued field: undefined and '' are falsy
Truthy(v) == v \notin {Undef, ""}

\* [a, b].find(Boolean) over two string-valued fields
FindBoolean(a, b) == IF Truthy(a) THEN a ELSE IF Truthy(b) THEN b ELSE Undef

\* [a, b].find(Boolean) over two numbers: 0 is falsy, no match gives undefined (0)
FindBooleanNum(a, b) == IF a # 0 THEN a ELSE b

\* Array.prototype.findLast: the index of the last entry whose conditional is
\* truthy
RECURSIVE FindLastFrom(_, _)
FindLastFrom(conds, i) ==
    IF i < 1 THEN 0
    ELSE IF conds[i] THEN i
    ELSE FindLastFrom(conds, i - 1)

\* Array.prototype.find over a list of conditionals: the index of the first
\* entry whose conditional is truthy, 0 (undefined) when there is none
RECURSIVE FindFrom(_, _)
FindFrom(conds, i) ==
    IF i > Len(conds) THEN 0
    ELSE IF conds[i] THEN i
    ELSE FindFrom(conds, i + 1)

Find(conds) == FindFrom(conds, 1)

\* obj[key], undefined for a key the object does not have
Get(obj, key) == IF key \in DOMAIN obj THEN obj[key] ELSE Undef

----------------------------------------------------------------------------
(* The values error() and fatal() are called with *)

Names == {"Error", "TypeError", "ApiException", "HttpException"}

\* what the value's getResponse is: "none" when it is not a function,
\* otherwise the type of what it returns ("other": neither string nor object)
RespKinds == {"none", "string", "object", "null", "other"}

\* what getResponse() returns when it returns a string: an ApiException is
\* built from its message
RespText(e) == IF e.name = "ApiException" THEN e.message ELSE "denied"

\* the response of a value whose getResponse() returns an object
RespObject == [statusCode |-> 404, message |-> "not found", error |-> "Not Found"]

\* getStatus() of a value that has the method: undefined (0) for a value that
\* keeps its status in a status field; an ApiException keeps it in statusCode
\* as well
GetStatus(e) ==
    IF e.status # 0 THEN 0
    ELSE IF e.name = "ApiException" THEN e.statusCode
    ELSE 403

\* a thrown string: it has no name, no message, no traceid and no stack
StringErr(s) ==
    [kind |-> "string", str |-> s, name |-> Undef, message |-> Undef,
     resp |-> "none", hasGetStatus |-> FALSE, statusCode |-> 0, status |-> 0,
     traceid |-> Undef]

\* null or undefined passed as the error
NullErr(k) == [StringErr("") EXCEPT !.kind = k]

IsObject(e) == e.kind = "object"

\* error == null: a property read without ?. throws a TypeError
IsNullish(e) == e.kind \in {"null", "undefined"}

\* typeof error?.getResponse === 'function'
IsFunction(e) == IsObject(e) /\ e.resp # "none"

ObjectErrs ==
    { [kind |-> "object", str |-> "", name |-> n, message |-> m, resp |-> r,
       hasGetStatus |-> g, statusCode |-> sc, status |-> st, traceid |-> t] :
        n \in Names, m \in {"", "boom"}, r \in RespKinds, g \in BOOLEAN,
        sc \in {0, 400}, st \in {0, 409}, t \in {Undef, "t1"} }

\* Fields that no rule reads for a value are kept at one value: the message
\* varies for Error and TypeError, getStatus and status for a string response,
\* the statusCode field for an ApiException.  An ApiException has a response
\* accessor, which returns a string or an object.
ErrVals ==
    { StringErr(s) : s \in {"", "boom"} }
    \cup { NullErr("null"), NullErr("undefined") }
    \cup { e \in ObjectErrs :
            /\ (e.name \notin {"Error", "TypeError"} => e.message = "boom")
            /\ (e.resp # "string" => e.hasGetStatus = IsFunction(e) /\ e.status = 0)
            /\ (e.status # 0 => e.hasGetStatus)
            /\ (e.statusCode # 0 <=> e.name = "ApiException")
            /\ (e.name = "ApiException" => e.resp \in {"string", "object"}) }

\* error.stack: an Error object carries one, a string does not
Stack(e) == IF IsObject(e) THEN "stack" ELSE Undef

----------------------------------------------------------------------------
(* Collaborators: @nestjs/common, libs/utils and pino *)

NoBody == [statusCode |-> 0, message |-> Undef, error |-> Undef]

\* new InternalServerErrorException(x).getResponse().  HttpException.createBody
\* gives {statusCode, message: description} for a missing argument and
\* {statusCode, message: x, error: description} for a string; the releases of
\* @nestjs/common differ on '' (legacy: any falsy argument counts as missing).
InternalServerErrorResponse(x, legacy) ==
    IF x = Undef \/ (legacy /\ x = "")
    THEN [statusCode |-> 500, message |-> "Internal Server Error", error |-> Undef]
    ELSE [statusCode |-> 500, message |-> x, error |-> "Internal Server Error"]

\* new ApiException(text, status, context).getResponse(): the application
\* exception carries the declared status, 500 by default, and the message
ApiExceptionResponse(text, status) ==
    [statusCode |-> IF status # 0 THEN status ELSE 500, message |-> text, error |-> Undef]

\* pino's numeric levels; 'silent' is above every level
LevelNum(l) ==
    CASE l = "trace" -> 10
      [] l = "info" -> 30
      [] l = "warn" -> 40
      [] l = "error" -> 50
      [] l = "fatal" -> 60
      [] OTHER -> 100

NoBindings ==
    [traceid |-> Undef, application |-> Undef, context |-> Undef,
     path |-> Undef, timestamp |-> Undef]

BindingKeys == DOMAIN NoBindings

\* logger.setBindings(b): the new bindings are appended to the logger's; a key
\* whose value is undefined is skipped, so the older value stays
SetBindings(old, b) ==
    [k \in BindingKeys |-> IF b[k] # Undef THEN b[k] ELSE old[k]]

\* The line logger[level](obj, msg) writes: the logger's bindings, then the
\* keys of obj whose value is not undefined (a later key wins when parsed)
Line(lvl, bound, obj, msg) ==
    [level |-> lvl, msg |-> msg,
     statusCode |-> obj.statusCode,
     message |-> obj.message,
     error |-> obj.error,
     type |-> obj.type,
     stack |-> obj.stack,
     traceid |-> IF obj.traceid # Undef THEN obj.traceid ELSE bound.traceid,
     application |-> IF obj.application # Undef THEN obj.application ELSE bound.application,
     context |-> IF obj.context # Undef THEN obj.context ELSE bound.context,
     timestamp |-> IF obj.timestamp # Undef THEN obj.timestamp ELSE bound.timestamp,
     path |-> bound.path]

\* an object with none of the keys a log call sets
NoObj ==
    [statusCode |-> 0, message |-> Undef, error |-> Undef, type |-> Undef,
     stack |-> Undef, traceid |-> Undef, application |-> Undef,
     context |-> Undef, timestamp |-> Undef]

NoLine == Line("none", NoBindings, NoObj, Undef)

\* uuidv4(): the n-th identifier handed out; no two calls return the same one
uuidv4(n) == "uuid-" \o ToString(n)

----------------------------------------------------------------------------
(* LoggerService: its private methods *)

\* getDateFormat(): the current time, formatted
getDateFormat == "03/11/2026 16:00:00"

\* the list with an entry 4 that tests for the name Error alone
ConditionalsErrorOnly(e) ==
    << e.kind = "string",
       IsFunction(e) /\ e.resp = "string",
       IsFunction(e) /\ e.resp \in {"object", "null"},
       e.name = "Error" >>

\* the list getErrorResponse searches, as its conditionals
Conditionals(e) ==
    << e.kind = "string",
       IsFunction(e) /\ e.resp = "string",
       IsFunction(e) /\ e.resp \in {"object", "null"},
       e.name = "Error" \/ e.name = "TypeError" >>

\* getErrorResponse with the last matching entry in place of the first
getErrorResponseLast(e) == FindLastFrom(Conditionals(e), Len(Conditionals(e)))

\* getErrorResponse(error): the entry found, 0 when find() returns undefined
getErrorResponse(e) == Find(Conditionals(e))

\* value() of entry i throws: entry 2 calls error.getStatus()
ValueThrows(e, i) == i = 2 /\ ~e.hasGetStatus

\* value() of entry i of the list
Value(e, i, legacy) ==
    CASE i = 1 -> InternalServerErrorResponse(e.str, legacy)
      [] i = 2 -> ApiExceptionResponse(RespText(e), FindBooleanNum(GetStatus(e), e.status))
      [] i = 3 -> IF e.resp = "object" THEN RespObject ELSE NoBody
      [] i = 4 -> InternalServerErrorResponse(e.message, legacy)
      [] OTHER -> NoBody

\* getTraceId without the test for a string
getTraceIdNoString(e, bound, n) == FindBoolean(e.traceid, Get(bound, "tranceId"))

\* getTraceId with the logger's trace id, read under 'traceid', tried first
getTraceIdBoundFirst(e, bound, n) ==
    IF e.kind = "string" THEN uuidv4(n)
    ELSE FindBoolean(Get(bound, "traceid"), e.traceid)

\* getTraceId(error) for a value that is not null: the logger's bindings are
\* read under the key 'tranceId'
getTraceId(e, bound, n) ==
    IF e.kind = "string" THEN uuidv4(n)
    ELSE FindBoolean(e.traceid, Get(bound, "tranceId"))

\* customProps(request): the object it returns and binds on the logger
customProps(request, application) ==
    [traceid |-> FindBoolean(request.traceidHeader, request.id),
     application |-> application,
     context |-> request.context,
     path |-> "http://" \o request.host \o request.url,
     timestamp |-> getDateFormat]

\* genReqId(request)
genReqId(traceidHeader) == traceidHeader

\* customLogLevel with 300 itself left out of the silenced statuses
customLogLevelAbove300(statusCode, error) ==
    IF (statusCode >= 400) \/ error THEN "error"
    ELSE IF (statusCode > 300) /\ (statusCode <= 400) THEN "silent"
    ELSE "info"

\* customLogLevel(res, error)
customLogLevel(statusCode, error) ==
    IF (statusCode >= 400) \/ error THEN "error"
    ELSE IF (statusCode >= 300) /\ (statusCode <= 400) THEN "silent"
    ELSE "info"

----------------------------------------------------------------------------
(* LoggerService: state *)

NoReq == [active |-> FALSE, traceidHeader |-> Undef, id |-> Undef,
          context |-> Undef, host |-> Undef, url |-> Undef, bound |-> NoBindings]

\* what `last` records of a call: the operation and its arguments
Call(op, e, context) ==
    [op |-> op, err |-> e, context |-> context, statusCode |-> 0, resError |-> FALSE]

\* `last` after a step that is no call on the logger
NoCall ==
    [call |-> Call("none", StringErr(""), Undef), threw |-> FALSE,
     emitted |-> FALSE, rec |-> NoLine, bound |-> NoBindings]

NoConsole == [written |-> FALSE, prefix |-> Undef, appAtCall |-> Undef]

LoggerInit ==
    /\ connected = FALSE
    /\ level = Undef
    /\ app = Undef
    /\ bindings = NoBindings
    /\ req = NoReq
    /\ uuids = 0
    /\ issued = {}
    /\ last = NoCall
    /\ pending = <<>>
    /\ console = NoConsole

\* error() was called with a string and wrote a line
StringLogged(l) == l.call.op = "error" /\ l.call.err.kind = "string" /\ l.emitted

\* `issued` collects, for each line written for a thrown string, the string
\* and the line's trace id; the line of the latest call is not yet in it
Remember ==
    issued' = IF StringLogged(last)
              THEN issued \cup {[str |-> last.call.err.str, traceid |-> last.rec.traceid]}
              ELSE issued

\* messageFormat(log, messageKey) on a line written when this.app was
\* appAtCall: the prefix is this.app as it is when the line is formatted
messageFormat(appAtCall) == [written |-> TRUE, prefix |-> app, appAtCall |-> appAtCall]

\* A call of logger[lvl](obj, msg) on a logger with the bindings `bound`: the
\* logger drops a line below its level, and logger.silent writes nothing; the
\* multistream writes every other line to the pretty stream, which formats it
\* within the write when it is idle, and later (deferred) when it is busy.
Emit(call, lvl, bound, obj, msg, deferred) ==
    LET passes == lvl # "silent" /\ LevelNum(lvl) >= LevelNum(level) IN
    /\ passes /\ deferred => Len(pending) < MaxPending
    /\ passes /\ ~deferred => pending = <<>>
    /\ last' = [call |-> call, threw |-> FALSE, emitted |-> passes,
                rec |-> IF passes THEN Line(lvl, bound, obj, msg) ELSE NoLine,
                bound |-> bound]
    /\ pending' = IF passes /\ deferred THEN Append(pending, app) ELSE pending
    /\ console' = IF passes /\ ~deferred THEN messageFormat(app) ELSE console
    /\ Remember

\* A call that ends in a TypeError: nothing is written
Throw(call) ==
    /\ last' = [call |-> call, threw |-> TRUE, emitted |-> FALSE, rec |-> NoLine,
                bound |-> bindings]
    /\ UNCHANGED <<pending, console>>
    /\ Remember

\* A step that is no call on the logger
Quiet ==
    /\ last' = NoCall
    /\ Remember

----------------------------------------------------------------------------
(* LoggerService: operations *)

\* connect(logLevel): a new pino logger, with no bindings
Connect(logLevel) ==
    /\ connected' = TRUE
    /\ level' = FindBoolean(logLevel, "trace")
    /\ bindings' = NoBindings
    /\ Quiet
    /\ UNCHANGED <<app, req, uuids, pending, console, healthVars>>

\* setApplication(app)
SetApplication(a) ==
    /\ app' = a
    /\ Quiet
    /\ UNCHANGED <<connected, level, bindings, req, uuids, pending, console, healthVars>>

\* log(message)
Log(message, deferred) ==
    /\ IF connected
       THEN Emit(Call("log", StringErr(""), Undef), "trace", bindings, NoObj, message, deferred)
       ELSE Throw(Call("log", StringErr(""), Undef))
    /\ UNCHANGED <<connected, level, app, bindings, req, uuids, healthVars>>

\* trace / info / warn ({message, context, obj = {}})
LogAt(lvl, message, context, deferred) ==
    /\ IF connected
       THEN Emit(Call(lvl, StringErr(""), context), lvl, bindings,
                 [NoObj EXCEPT !.context = context], message, deferred)
       ELSE Throw(Call(lvl, StringErr(""), context))
    /\ UNCHANGED <<connected, level, app, bindings, req, uuids, healthVars>>

\* the response error() spreads into the line: an ApiException gives its own
\* statusCode and message, any other value what the entry found computes
ErrorResponse(e, legacy) ==
    IF e.name = "ApiException"
    THEN [statusCode |-> e.statusCode, message |-> e.message, error |-> Undef]
    ELSE Value(e, getErrorResponse(e), legacy)

\* the object error() hands to this.pino.logger.error
ErrorObject(e, context, legacy) ==
    LET response == ErrorResponse(e, legacy)
        type == IF e.name = "Error" THEN "ApiException" ELSE Undef
    IN  [statusCode |-> response.statusCode,
         message |-> response.message,
         error |-> response.error,
         context |-> FindBoolean(context, app),
         type |-> FindBoolean(type, e.name),
         traceid |-> getTraceId(e, bindings, uuids + 1),
         timestamp |-> getDateFormat,
         application |-> app,
         stack |-> Stack(e)]

\* error(error, message, context) throws: value() calls a method the value
\* lacks, getTraceId reads a property of null, or this.pino is undefined
ErrorThrows(e) ==
    \/ e.name # "ApiException" /\ ValueThrows(e, getErrorResponse(e))
    \/ IsNullish(e)
    \/ ~connected

\* error(error, message, context)
Error(e, message, context, legacy, deferred) ==
    /\ e.kind = "string" /\ ~ErrorThrows(e) => uuids < MaxUuid
    /\ IF ErrorThrows(e)
       THEN /\ Throw(Call("error", e, context))
            /\ uuids' = uuids
       ELSE /\ Emit(Call("error", e, context), "error", bindings,
                    ErrorObject(e, context, legacy), message, deferred)
            /\ uuids' = IF e.kind = "string" THEN uuids + 1 ELSE uuids
    /\ UNCHANGED <<connected, level, app, bindings, req, healthVars>>

\* the object fatal() hands to this.pino.logger.fatal: spreading a string
\* response gives its characters under the keys '0', '1', ..., no body field
FatalObject(e, context) ==
    LET response == IF e.resp = "object" THEN RespObject ELSE NoBody
    IN  [statusCode |-> response.statusCode,
         message |-> response.message,
         error |-> response.error,
         context |-> FindBoolean(context, app),
         type |-> e.name,
         traceid |-> getTraceId(e, bindings, uuids + 1),
         timestamp |-> getDateFormat,
         application |-> app,
         stack |-> Stack(e)]

\* fatal(error, message, context) throws: error.getResponse is not a function
FatalThrows(e) == ~connected \/ ~IsFunction(e)

\* fatal(error, message, context)
Fatal(e, message, context, deferred) ==
    /\ IF FatalThrows(e)
       THEN Throw(Call("fatal", e, context))
       ELSE Emit(Call("fatal", e, context), "fatal", bindings,
                 FatalObject(e, context), message, deferred)
    /\ UNCHANGED <<connected, level, app, bindings, req, uuids, healthVars>>

\* The pretty stream formats the oldest line that waits
Format ==
    /\ pending # <<>>
    /\ console' = messageFormat(Head(pending))
    /\ pending' = Tail(pending)
    /\ Quiet
    /\ UNCHANGED <<connected, level, app, bindings, req, uuids, healthVars>>

\* pino-http's middleware on a request: req.id = genReqId(req), then
\* customProps(req), which binds what it returns on the logger; the response's
\* logger is a child that keeps these bindings
HttpRequest(traceidHeader) ==
    /\ connected
    /\ ~req.active
    /\ LET request == [active |-> TRUE, traceidHeader |-> traceidHeader,
                       id |-> genReqId(traceidHeader), context |-> "HealthController",
                       host |-> "localhost", url |-> "/health", bound |-> NoBindings]
           bound == SetBindings(bindings, customProps(request, app))
       IN  /\ req' = [request EXCEPT !.bound = bound]
           /\ bindings' = bound
    /\ Quiet
    /\ UNCHANGED <<connected, level, app, uuids, pending, console, healthVars>>

\* customSuccessMessage(res) / customErrorMessage(error, res)
AccessMessage(statusCode, error) ==
    IF error \/ statusCode >= 500 THEN "request error"
    ELSE IF statusCode >= 400 THEN "request errro"
    ELSE "request success"

\* pino-http when the response finishes: the access line, at the level
\* customLogLevel(res, error) gives
AccessLog(statusCode, error, deferred) ==
    /\ req.active
    /\ Emit([op |-> "access", err |-> StringErr(""), context |-> Undef,
             statusCode |-> statusCode, resError |-> error],
            customLogLevel(statusCode, error), req.bound, NoObj,
            AccessMessage(statusCode, error), deferred)
    /\ req' = NoReq
    /\ UNCHANGED <<connected, level, app, bindings, uuids, healthVars>>

----------------------------------------------------------------------------
(* GET /health of main-api *)

\* the service as the module provides it: getText() resolves
ServiceUp == [fails |-> FALSE, message |-> Undef, status |-> 0]

\* `resp` before any request.  rejected and thrown record what getText() did
\* in the request: whether it rejected, and with which exception
NoResponse ==
    [status |-> 0, text |-> Undef, statusCode |-> 0, message |-> Undef,
     rejected |-> FALSE, thrown |-> ServiceUp]

HealthInit(names) ==
    /\ name \in names
    /\ svc = ServiceUp
    /\ resp = NoResponse

\* getText() without the exclamation marks
getTextPlain == name \o " UP"

\* HealthService.getText()
getText == name \o " UP!!"

\* service.getText = jest.fn().mockRejectedValue(new ApiException(message, status))
MockRejected(message, status) ==
    /\ svc' = [fails |-> TRUE, message |-> message, status |-> status]
    /\ UNCHANGED <<name, resp, loggerVars>>

\* beforeEach: a new testing module, with HealthService as provided
Restore ==
    /\ svc' = ServiceUp
    /\ UNCHANGED <<name, resp, loggerVars>>

\* the response to an exception, with the default status left at 0
ExceptionResponseNoDefault(exception) ==
    [status |-> exception.status, text |-> Undef, statusCode |-> exception.status,
     message |-> exception.message, rejected |-> TRUE, thrown |-> exception]

\* the response to an exception that reaches the controller: the status the
\* exception declares, 500 by default, and the body {statusCode, message}
ExceptionResponse(exception) ==
    LET code == IF exception.status # 0 THEN exception.status ELSE 500
    IN  [status |-> code, text |-> Undef, statusCode |-> code,
         message |-> exception.message, rejected |-> TRUE, thrown |-> exception]

\* the response to a value the controller returns
TextResponse(text) ==
    [status |-> 200, text |-> text, statusCode |-> 0, message |-> Undef,
     rejected |-> FALSE, thrown |-> ServiceUp]

\* GET /health: HealthController.getHealth() returns what getText() resolves to
GetHealth ==
    /\ resp' = IF svc.fails THEN ExceptionResponse(svc) ELSE TextResponse(getText)
    /\ UNCHANGED <<name, svc, loggerVars>>

----------------------------------------------------------------------------
(* Specifications *)

Apps == {"main-api", "auth-api"}

Contexts == {Undef, "CatsService"}

Messages == {"m"}

TraceHeaders == {Undef, "h1"}

\* every status an HTTP response can carry
StatusCodes == 100 .. 599

\* the statuses around the limits customLogLevel compares with
SomeStatuses == {200, 299, 300, 399, 400, 500}

\* values of the shapes getTraceId and fatal() tell apart
SomeErrs ==
    { StringErr(""), StringErr("boom"), NullErr("null") } \cup
    { e \in ErrVals : /\ IsObject(e)
                      /\ e.message = "boom"
                      /\ e.name \in {"Error", "HttpException"}
                      /\ e.resp \in {"none", "object"} }

Init == LoggerInit /\ HealthInit({"main-api"})

(* The logger while requests are handled *)
Next ==
    \/ Connect(Undef)
    \/ \E a \in Apps : SetApplication(a)
    \/ \E h \in TraceHeaders : HttpRequest(h)
    \/ \E s \in SomeStatuses, err \in BOOLEAN : AccessLog(s, err, FALSE)
    \/ \E m \in Messages : Log(m, FALSE)
    \/ \E l \in {"trace", "info", "warn"}, m \in Messages, c \in Contexts : LogAt(l, m, c, FALSE)
    \/ \E e \in SomeErrs, m \in Messages, c \in Contexts, legacy \in BOOLEAN :
          Error(e, m, c, legacy, FALSE)
    \/ \E e \in SomeErrs, m \in Messages, c \in Contexts : Fatal(e, m, c, FALSE)

Spec == Init /\ [][Next]_vars

(* error() and fatal() on values of every shape *)
ErrorNext ==
    \/ \E l \in {Undef, "fatal"} : Connect(l)
    \/ \E a \in Apps : SetApplication(a)
    \/ \E e \in ErrVals, m \in Messages : Fatal(e, m, Undef, FALSE)
    \/ \E e \in ErrVals, m \in Messages, legacy \in BOOLEAN : Error(e, m, Undef, legacy, FALSE)

ErrorSpec == Init /\ [][ErrorNext]_vars

(* The pretty stream: a line may wait before it is formatted *)
SinkNext ==
    \/ Connect(Undef)
    \/ \E a \in Apps : SetApplication(a)
    \/ HttpRequest("h1")
    \/ \E m \in Messages, c \in Contexts, d \in BOOLEAN : LogAt("info", m, c, d)
    \/ \E m \in Messages, c \in Contexts, d \in BOOLEAN :
          Error([StringErr("") EXCEPT !.kind = "object", !.name = "Error", !.message = "boom",
                                      !.hasGetStatus = TRUE],
                m, c, FALSE, d)
    \/ Format

SinkSpec == Init /\ [][SinkNext]_vars

(* The access line of every response *)
AccessNext ==
    \/ Connect(Undef)
    \/ \E a \in Apps : SetApplication(a)
    \/ \E h \in TraceHeaders : HttpRequest(h)
    \/ \E s \in StatusCodes, err \in BOOLEAN : AccessLog(s, err, FALSE)

AccessSpec == Init /\ [][AccessNext]_vars

(* GET /health *)
HealthNext ==
    \/ \E m \in {"Error", "down"}, s \in {0, 400, 404, 503} : MockRejected(m, s)
    \/ Restore
    \/ GetHealth

HealthSpecInit == LoggerInit /\ HealthInit({"main-api", "auth-api", "cats-api"})

HealthSpec == HealthSpecInit /\ [][HealthNext]_vars

----------------------------------------------------------------------------
(* Properties *)

\* the line the latest call wrote comes from error() / fatal()
ErrorLogged == last.emitted /\ last.call.op = "error"

FatalLogged == last.emitted /\ last.call.op = "fatal"

\* C1: a GET /health in which getText() resolves answers 200 with exactly
\* "<name> UP!!", <name> being the name the application's package declares
C1_HealthUp ==
    resp.status # 0 /\ ~resp.rejected =>
        /\ resp.status = 200
        /\ resp.text = name \o " UP!!"

C1_Witness == resp.status = 200 /\ ~resp.rejected /\ resp.text = "cats-api UP!!"

\* C2: a GET /health in which getText() rejects with an exception that has a
\* message and declares no status answers 500 with the body
\* {statusCode: 500, message}, and no rejected call answers with a text body
C2_HealthDown ==
    resp.rejected =>
        /\ resp.text = Undef
        /\ resp.status # 200
        /\ resp.thrown.status = 0 =>
              /\ resp.status = 500
              /\ resp.statusCode = 500
              /\ resp.message = resp.thrown.message

C2_Witness ==
    resp.rejected /\ resp.thrown.status = 0 /\ resp.thrown.message = "Error" /\ resp.status = 500

\* C3: the access line of a response is written at 'error' when the status is
\* >= 400 or an error is attached, is not written ('silent') for a 3xx without
\* error, and is written at 'info' in every other case
C3_AccessLevel ==
    last.call.op = "access" =>
        LET s == last.call.statusCode
            failed == s >= 400 \/ last.call.resError
            redirect == s \in 300 .. 399 /\ ~last.call.resError
        IN  /\ failed => last.emitted /\ last.rec.level = "error"
            /\ redirect => ~last.emitted
            /\ ~failed /\ ~redirect => last.emitted /\ last.rec.level = "info"

C3_Witness ==
    /\ last.call.op = "access"
    /\ last.call.statusCode = 399
    /\ ~last.call.resError
    /\ ~last.emitted

\* C4: the line error() writes for a string has statusCode 500 and a trace id
\* that is not empty, is not the one bound on the logger, and differs from the
\* trace id of every line written for a string by an earlier call, the same
\* string included
C4_StringError ==
    StringLogged(last) =>
        /\ last.rec.statusCode = 500
        /\ Truthy(last.rec.traceid)
        /\ last.rec.traceid # last.bound.traceid
        /\ \A i \in issued : i.traceid # last.rec.traceid

C4_Witness ==
    /\ StringLogged(last)
    /\ last.bound.traceid = "h1"
    /\ \E i \in issued : i.str = last.call.err.str

\* the value has no response accessor that returns a string or an object
\* (typeof null is 'object')
NoResponseBody(e) == e.resp \in {"none", "other"}

\* C5, as claimed: the line error() writes for a value named Error or
\* TypeError has statusCode 500 and the value's message, whatever else the
\* value has
C5_Original ==
    ErrorLogged /\ last.call.err.name \in {"Error", "TypeError"} =>
        /\ last.rec.statusCode = 500
        /\ last.rec.message = last.call.err.message

\* C5, amended: the line error() writes for a value named Error or TypeError
\* whose response accessor is absent or returns neither a string nor an object,
\* and whose message is not empty, has statusCode 500 and the value's message
C5_BareError ==
    /\ ErrorLogged
    /\ last.call.err.name \in {"Error", "TypeError"}
    /\ NoResponseBody(last.call.err)
    /\ last.call.err.message # ""
    =>  /\ last.rec.statusCode = 500
        /\ last.rec.message = last.call.err.message

C5_Witness ==
    /\ ErrorLogged
    /\ last.call.err.name = "TypeError"
    /\ last.call.err.resp = "other"
    /\ last.rec.message = "boom"

\* C6: the line error() or fatal() writes for a value that is not a string
\* carries the value's own traceid when it is set, and otherwise the trace id
\* bound on the logger at the call; it has one whenever the logger has
C6_TraceId ==
    (ErrorLogged \/ FatalLogged) /\ last.call.err.kind # "string" =>
        /\ Truthy(last.call.err.traceid) => last.rec.traceid = last.call.err.traceid
        /\ ~Truthy(last.call.err.traceid) => last.rec.traceid = last.bound.traceid

C6_Witness ==
    /\ FatalLogged
    /\ last.call.err.traceid = Undef
    /\ last.bound.traceid = "h1"
    /\ last.rec.traceid = "h1"

\* C7, as claimed: on a connected logger no call of error() or fatal() throws,
\* whatever the value
C7_NeverThrows ==
    connected /\ last.call.op \in {"error", "fatal"} => ~last.threw

\* C8, as claimed: a line of a log call made after an application name was
\* set carries the name set at the call: as the prefix of its console line,
\* in its application field when it has one, and as the context of an error()
\* or fatal() line called without context
C8_AppAtCall ==
    /\ console.written /\ console.appAtCall # Undef => console.prefix = console.appAtCall
    /\ last.emitted /\ last.call.op # "access" /\ app # Undef /\ last.rec.application # Undef =>
          last.rec.application = app
    /\ (ErrorLogged \/ FatalLogged) /\ app # Undef /\ last.call.context = Undef =>
          last.rec.context = app

\* C9, as claimed: a line written while a request is handled, its access line
\* included, carries a trace id, the application name, a context, the request
\* path and a timestamp
C9_RequestBindings ==
    last.emitted /\ (req.active \/ last.call.op = "access") =>
        /\ last.rec.traceid # Undef
        /\ app # Undef => last.rec.application # Undef
        /\ last.rec.context # Undef
        /\ last.rec.path # Undef
        /\ last.rec.timestamp # Undef

\* the body fields of a line
Body(rec) == [statusCode |-> rec.statusCode, message |-> rec.message, error |-> rec.error]

\* rules 1 to 5 of the normalization list, the first that applies
RuleBody(e, legacy) ==
    IF e.kind = "string" THEN InternalServerErrorResponse(e.str, legacy)
    ELSE IF IsFunction(e) /\ e.resp = "string"
         THEN ApiExceptionResponse(RespText(e), FindBooleanNum(GetStatus(e), e.status))
    ELSE IF IsFunction(e) /\ e.resp = "object" THEN RespObject
    ELSE IF IsFunction(e) /\ e.resp = "null" THEN NoBody
    ELSE IF e.name \in {"Error", "TypeError"} THEN InternalServerErrorResponse(e.message, legacy)
    ELSE NoBody

\* C10, as claimed: the body of the line error() writes is that of the first
\* of the rules 1 to 5 that applies to the value, whatever the value's name
C10_Original ==
    ErrorLogged => \E legacy \in BOOLEAN : Body(last.rec) = RuleBody(last.call.err, legacy)

\* C10, amended: the body of the line error() writes for a value not named
\* ApiException is that of the first of the rules 1 to 5 that applies (a null
\* response is an object without fields, and rule 5 gives no body field); for
\* a value named ApiException it is the value's own statusCode and message
C10_FirstRule ==
    ErrorLogged =>
        IF last.call.err.name = "ApiException"
        THEN Body(last.rec) = [statusCode |-> last.call.err.statusCode,
                               message |-> last.call.err.message, error |-> Undef]
        ELSE \E legacy \in BOOLEAN : Body(last.rec) = RuleBody(last.call.err, legacy)

C10_Witness ==
    /\ ErrorLogged
    /\ last.call.err.name = "Error"
    /\ last.call.err.resp = "object"
    /\ Body(last.rec) = RespObject

====
